---- MODULE Spec2Model ----
(***************************************************************************)
(* The chat widget of src/components/ChatInterface.tsx as a state machine. *)
(*                                                                         *)
(* The component's React state (messages, inputMessage, isLoading,         *)
(* selectedAI, selectedLanguage) is the model's state.  Every DOM event is *)
(* one step: React flushes the state updates of a discrete event before    *)
(* the next event is dispatched, so a handler always reads the state of    *)
(* the latest render.  handleSendMessage is an async function: its part up *)
(* to the first await (the fetch call included) is one step, and its       *)
(* continuation after the network call settles is another step (Settle),   *)
(* which reads the values the handler's closure captured when it was       *)
(* invoked and appends with the functional form of setMessages.            *)
(*                                                                         *)
(* A text is a sequence of chunks (strings); a chunk in WhiteSpace is one  *)
(* whitespace character, any other chunk is a run of non-blank text.       *)
(***************************************************************************)
EXTENDS Integers, Sequences, FiniteSets

VARIABLES
    messages,          \* useState<ChatMessage[]>, line 25
    inputMessage,      \* useState(""), line 34
    isLoading,         \* useState(false), line 35
    selectedAI,        \* useState("gpt"), line 36
    selectedLanguage,  \* useState("en"), line 37
    pending,           \* handleSendMessage invocations suspended at their await
    turn,              \* number of requests sent so far
    now,               \* Date.now()
    stats,             \* the host's statistics object behind onStatsUpdate
    localStorage,      \* window.localStorage
    statsCalls,        \* number of calls of the onStatsUpdate prop
    fulfilled,         \* number of turns whose reply parsed to a JSON object
    unhandled,         \* a promise of handleSendMessage was rejected
    last               \* the event of the latest step

vars == <<messages, inputMessage, isLoading, selectedAI, selectedLanguage,
          pending, turn, now, stats, localStorage, statsCalls, fulfilled,
          unhandled, last>>

----------------------------------------------------------------------------
(* Bounds of the model *)

MaxTurns == 2
MaxDeepTurns == 4
MaxTick == 1
ClockStart == 10
HostTotalChats == 0

----------------------------------------------------------------------------
(* Values *)

Undefined == "undefined"

WhiteSpace == {" ", "\t"}

ContextSize == 5

aiProviders == {"gpt", "grok", "deepseek"}

\* two of the four languages of the selector
Languages == {"en", "ar"}

\* one of the eight quick questions
quickActions == {<<"VAT Registration">>}

Greeting == <<"Hello! I'm SKV.ChatGB, your AI assistant for UAE business services. I can help you with business setup, tax services, visa applications, document management, and more. How can I assist you today?">>

FallbackText == <<"I'm sorry, I couldn't process your request right now. Please try again.">>

SupportEmail == "info@skvbusiness.com"

ErrorText == <<"I'm experiencing technical difficulties. Please try again or contact our support team at ", SupportEmail>>

StatsKey == "skv-chatbot-stats"

----------------------------------------------------------------------------
(* Pure functions *)

RECURSIVE TrimStart(_)
TrimStart(s) ==
    IF s = <<>> THEN s
    ELSE IF Head(s) \in WhiteSpace THEN TrimStart(Tail(s))
    ELSE s

RECURSIVE TrimEnd(_)
TrimEnd(s) ==
    IF s = <<>> THEN s
    ELSE IF s[Len(s)] \in WhiteSpace THEN TrimEnd(SubSeq(s, 1, Len(s) - 1))
    ELSE s

\* String.prototype.trim
Trim(s) == TrimEnd(TrimStart(s))

\* slice(0, n) in place of slice(-n)
SliceFirst(s, n) ==
    IF Len(s) <= n THEN s ELSE SubSeq(s, 1, n)

\* Array.prototype.slice(-n)
SliceLast(s, n) ==
    IF Len(s) <= n THEN s ELSE SubSeq(s, Len(s) - n + 1, Len(s))

\* Number.prototype.toString: the decimal digits of a natural number
RECURSIVE toString(_)
toString(n) ==
    IF n < 10 THEN <<n>> ELSE Append(toString(n \div 10), n % 10)

\* JSON.stringify of an object
Stringify(v) == [json |-> v]

----------------------------------------------------------------------------
(* Inputs: what the user types and what the backend answers *)

Texts == {<<>>, <<" ", "\t">>, <<" ", "a", " ">>}

\* the providers the user picks in the model: two of the three
Providers == aiProviders \ {"deepseek"}

JsonNull == [null |-> TRUE]

Bodies ==
    { [response |-> <<"X">>, department |-> "Tax"],
      [response |-> <<>>, department |-> "Tax"],
      JsonNull }

\* fetch rejects; response.json() rejects; response.json() resolves to data
Nets ==
    {[kind |-> "reject"], [kind |-> "badjson"]}
        \cup {[kind |-> "json", data |-> d] : d \in Bodies}

DeepNets == {[kind |-> "reject"], [kind |-> "json", data |-> [response |-> <<"X">>, department |-> "Tax"]]}

NoNet == [kind |-> "none"]

Event(op, t, net) == [op |-> op, turn |-> t, net |-> net]

----------------------------------------------------------------------------
(* State after construction *)

InitialMessage ==
    [id |-> <<1>>, content |-> Greeting, sender |-> "ai", timestamp |-> ClockStart,
     aiProvider |-> "gpt", department |-> Undefined]

Init ==
    /\ messages = <<InitialMessage>>
    /\ inputMessage = <<>>
    /\ isLoading = FALSE
    /\ selectedAI = "gpt"
    /\ selectedLanguage = "en"
    /\ pending = {}
    /\ turn = 0
    /\ now = ClockStart
    /\ stats = [totalChats |-> HostTotalChats, satisfaction |-> "opaque"]
    /\ localStorage = [k \in {} |-> 0]
    /\ statsCalls = 0
    /\ fulfilled = 0
    /\ unhandled = FALSE
    /\ last = Event("init", 0, NoNet)

----------------------------------------------------------------------------
(* handleSendMessage up to its await *)

\* the guard without trim()
SendGuardNoTrim == inputMessage # <<>>

\* line 61: if (!inputMessage.trim()) return
SendGuard == Trim(inputMessage) # <<>>

UserMessage ==
    [id |-> toString(now), content |-> inputMessage, sender |-> "user",
     timestamp |-> now, aiProvider |-> Undefined, department |-> Undefined]

\* the body with the text trimmed before it is sent
RequestBodyTrimmed ==
    [message |-> Trim(inputMessage),
     aiProvider |-> selectedAI,
     language |-> selectedLanguage,
     context |-> SliceLast(messages, ContextSize)]

\* the body of the POST to /api/chat
RequestBody ==
    [message |-> inputMessage,
     aiProvider |-> selectedAI,
     language |-> selectedLanguage,
     context |-> SliceLast(messages, ContextSize)]

\* what the continuation after the await reads from the handler's closure
Closure ==
    [selectedAI |-> selectedAI, messages |-> messages]

\* setMessages([...messages, m]) with the messages of the closure
AppendToClosure(prev, closure, m) == Append(closure.messages, m)

\* setMessages(prev => [...prev, m])
AppendMessage(prev, closure, m) == Append(prev, m)

\* the update without setInputMessage("")
OptimisticUpdateKeepInput ==
    /\ messages' = AppendMessage(messages, Closure, UserMessage)
    /\ inputMessage' = inputMessage
    /\ isLoading' = TRUE

\* lines 70-72
OptimisticUpdate ==
    /\ messages' = AppendMessage(messages, Closure, UserMessage)
    /\ inputMessage' = <<>>
    /\ isLoading' = TRUE

handleSendMessage ==
    IF ~SendGuard
    THEN /\ last' = Event("handleSendMessage", turn, NoNet)
         /\ UNCHANGED <<messages, inputMessage, isLoading, selectedAI,
                        selectedLanguage, pending, turn, now, stats,
                        localStorage, statsCalls, fulfilled, unhandled>>
    ELSE /\ OptimisticUpdate
         /\ turn' = turn + 1
         /\ pending' = pending \cup
                {[turn |-> turn + 1, body |-> RequestBody, closure |-> Closure]}
         /\ last' = Event("handleSendMessage", turn + 1, NoNet)
         /\ UNCHANGED <<selectedAI, selectedLanguage, now, stats, localStorage,
                        statsCalls, fulfilled, unhandled>>

----------------------------------------------------------------------------
(* handleSendMessage after its await *)

Get(data, f) == IF f \in DOMAIN data THEN data[f] ELSE Undefined

\* data.response || "I'm sorry, ..."
ResponseOrFallback(data) ==
    IF "response" \in DOMAIN data /\ data.response # <<>>
    THEN data.response
    ELSE FallbackText

\* the try block runs to its end: neither await rejects and data.response
\* can be read
TryCompletes(net) == net.kind = "json" /\ net.data # JsonNull

\* the reply tagged with the provider selected when it arrives
AiMessageCurrentProvider(r, data) ==
    [id |-> toString(now + 1), content |-> ResponseOrFallback(data),
     sender |-> "ai", timestamp |-> now,
     aiProvider |-> selectedAI,
     department |-> Get(data, "department")]

AiMessage(r, data) ==
    [id |-> toString(now + 1), content |-> ResponseOrFallback(data),
     sender |-> "ai", timestamp |-> now,
     aiProvider |-> r.closure.selectedAI,
     department |-> Get(data, "department")]

ErrorMessage(r) ==
    [id |-> toString(now + 1), content |-> ErrorText, sender |-> "ai",
     timestamp |-> now, aiProvider |-> r.closure.selectedAI,
     department |-> Undefined]

\* the updater without the increment
StatsUpdaterNoIncrement(prevStats) == prevStats

\* the updater handed to onStatsUpdate: { ...prevStats, totalChats + 1 }
StatsUpdater(prevStats) == [prevStats EXCEPT !.totalChats = @ + 1]

\* the host applies the updater to its statistics; the updater writes the
\* result to localStorage
onStatsUpdate ==
    /\ stats' = StatsUpdater(stats)
    /\ localStorage' =
          [k \in DOMAIN localStorage \cup {StatsKey} |->
              IF k = StatsKey THEN Stringify(StatsUpdater(stats)) ELSE localStorage[k]]
    /\ statsCalls' = statsCalls + 1

TryBlock(r, net) ==
    /\ messages' = AppendMessage(messages, r.closure, AiMessage(r, net.data))
    /\ onStatsUpdate

CatchBlock(r) ==
    /\ messages' = AppendMessage(messages, r.closure, ErrorMessage(r))
    /\ UNCHANGED <<stats, localStorage, statsCalls>>

\* setIsLoading(false) at the end of the try block only
FinallyOnSuccessOnly(net) ==
    isLoading' = IF TryCompletes(net) THEN FALSE ELSE isLoading

\* lines 118-120
Finally(net) == isLoading' = FALSE

\* the catch block has no throw: nothing leaves the handler
Escapes(net) == FALSE

WellFormed(net) == net.kind = "json" /\ net.data # JsonNull

Settle(r, net) ==
    /\ r \in pending
    /\ pending' = pending \ {r}
    /\ IF TryCompletes(net) THEN TryBlock(r, net) ELSE CatchBlock(r)
    /\ Finally(net)
    /\ unhandled' = (unhandled \/ Escapes(net))
    /\ fulfilled' = IF WellFormed(net) THEN fulfilled + 1 ELSE fulfilled
    /\ last' = Event("settle", r.turn, net)
    /\ UNCHANGED <<inputMessage, selectedAI, selectedLanguage, turn, now>>

----------------------------------------------------------------------------
(* The controls *)

\* <Input onChange>, disabled while loading
InputChange(t) ==
    /\ ~isLoading
    /\ inputMessage' = t
    /\ last' = Event("other", turn, NoNet)
    /\ UNCHANGED <<messages, isLoading, selectedAI, selectedLanguage, pending,
                   turn, now, stats, localStorage, statsCalls, fulfilled, unhandled>>

\* a quick-question button
QuickQuestion(q) ==
    /\ inputMessage' = q
    /\ last' = Event("other", turn, NoNet)
    /\ UNCHANGED <<messages, isLoading, selectedAI, selectedLanguage, pending,
                   turn, now, stats, localStorage, statsCalls, fulfilled, unhandled>>

SelectAI(p) ==
    /\ selectedAI' = p
    /\ last' = Event("other", turn, NoNet)
    /\ UNCHANGED <<messages, inputMessage, isLoading, selectedLanguage, pending,
                   turn, now, stats, localStorage, statsCalls, fulfilled, unhandled>>

SelectLanguage(l) ==
    /\ selectedLanguage' = l
    /\ last' = Event("other", turn, NoNet)
    /\ UNCHANGED <<messages, inputMessage, isLoading, selectedAI, pending,
                   turn, now, stats, localStorage, statsCalls, fulfilled, unhandled>>

\* Enter in the <Input>, which is disabled while loading
KeyPressEnter ==
    /\ ~isLoading
    /\ handleSendMessage

\* the Send <Button>, disabled while loading or when the input is blank
ClickSend ==
    /\ Trim(inputMessage) # <<>>
    /\ ~isLoading
    /\ handleSendMessage

\* the handler called while a control is disabled (a dispatched event)
Reenter ==
    /\ isLoading
    /\ handleSendMessage

\* a millisecond passes
Tick ==
    /\ now < ClockStart + MaxTick
    /\ now' = now + 1
    /\ last' = Event("other", turn, NoNet)
    /\ UNCHANGED <<messages, inputMessage, isLoading, selectedAI, selectedLanguage,
                   pending, turn, stats, localStorage, statsCalls, fulfilled, unhandled>>

----------------------------------------------------------------------------
(* Specifications *)

TypeText == \E t \in Texts : InputChange(t)
PickQuestion == \E q \in quickActions : QuickQuestion(q)
PickAI == \E p \in Providers : SelectAI(p)
PickLanguage == \E l \in Languages : SelectLanguage(l)
PressEnter == turn < MaxTurns /\ KeyPressEnter
PressSend == turn < MaxTurns /\ ClickSend
PressAgain == turn < MaxTurns /\ Reenter
Reply == \E r \in pending, net \in Nets : Settle(r, net)

Next ==
    \/ TypeText
    \/ PickQuestion
    \/ PickAI
    \/ PickLanguage
    \/ PressEnter
    \/ PressSend
    \/ Reply
    \/ Tick

\* the widget as rendered: the input and the button are disabled while loading
Spec == Init /\ [][Next]_vars

NextReentrant == Next \/ PressAgain

\* the handler may also be invoked while a request is outstanding
SpecReentrant == Init /\ [][NextReentrant]_vars

DeepEnter == turn < MaxDeepTurns /\ KeyPressEnter
DeepReply == \E r \in pending, net \in DeepNets : Settle(r, net)

NextDeep ==
    \/ PickQuestion
    \/ DeepEnter
    \/ DeepReply
    \/ Tick

\* long conversations with few inputs, for the context window
SpecDeep == Init /\ [][NextDeep]_vars

----------------------------------------------------------------------------
(* Claims *)

IsPrefix(s, t) == Len(s) <= Len(t) /\ SubSeq(t, 1, Len(s)) = s

IsSuffix(s, t) == Len(s) <= Len(t) /\ SubSeq(t, Len(t) - Len(s) + 1, Len(t)) = s

AllWhite(s) == \A i \in 1..Len(s) : s[i] \in {" ", "\t"}

Newest(s) == s[Len(s)]

\* the step is an invocation of the handler with text that is not blank
Submits == last'.op = "handleSendMessage" /\ ~AllWhite(inputMessage)

\* the step settles a request with the network outcome last'.net
Settles == last'.op = "settle"

\* C1: while the request of any submission is outstanding, loading is true
C1_LoadingWhileAwaiting == \A r \in pending : isLoading

\* C2: a reply {response: X, department: D} with X non-empty appends an
\* assistant message with content X, department D and the provider that was
\* selected when the turn was submitted
C2_ReplyMessage ==
    [][(/\ Settles
        /\ last'.net.kind = "json"
        /\ {"response", "department"} \subseteq DOMAIN last'.net.data
        /\ last'.net.data.response # <<>>)
       => \E r \in pending \ pending' :
            /\ r.turn = last'.turn
            /\ Len(messages') = Len(messages) + 1
            /\ IsPrefix(messages, messages')
            /\ Newest(messages').sender = "ai"
            /\ Newest(messages').content = last'.net.data.response
            /\ Newest(messages').department = last'.net.data.department
            /\ Newest(messages').aiProvider = r.body.aiProvider]_vars

\* C2 witness: a reply with content X and department Tax has arrived after
\* the provider selection was changed while the request was in flight
C2_Witness ==
    /\ last.op = "settle"
    /\ last.net = [kind |-> "json", data |-> [response |-> <<"X">>, department |-> "Tax"]]
    /\ Newest(messages).content = <<"X">>
    /\ Newest(messages).aiProvider # selectedAI

\* C3: a transport or JSON parsing failure appends exactly one assistant
\* message with the fixed error text and the support email, lets nothing
\* escape the handler, leaves the stats alone and clears loading
C3_FailureMessage ==
    [][(Settles /\ last'.net.kind \in {"reject", "badjson"})
       => /\ Len(messages') = Len(messages) + 1
          /\ IsPrefix(messages, messages')
          /\ Newest(messages').sender = "ai"
          /\ Newest(messages').content = ErrorText
          /\ \E i \in 1..Len(Newest(messages').content) :
                Newest(messages').content[i] = "info@skvbusiness.com"
          /\ unhandled' = FALSE
          /\ statsCalls' = statsCalls
          /\ stats' = stats
          /\ localStorage' = localStorage
          /\ isLoading' = FALSE]_vars

\* C3 witness: a request has just failed to parse and the error message is
\* the newest message
C3_Witness ==
    /\ last.op = "settle"
    /\ last.net.kind = "badjson"
    /\ Newest(messages).content = ErrorText
    /\ ~isLoading

\* C4: submitting text that is not blank appends exactly one user message,
\* clears the input and sets loading in the same step, and the request of
\* the turn is still outstanding after that step
C4_SubmitAppendsUserMessage ==
    [][Submits
       => /\ Len(messages') = Len(messages) + 1
          /\ IsPrefix(messages, messages')
          /\ Newest(messages').sender = "user"
          /\ Newest(messages').content = inputMessage
          /\ inputMessage' = <<>>
          /\ isLoading' = TRUE
          /\ \E r \in pending' \ pending : r.turn = last'.turn]_vars

\* C4 witness: a turn has just been submitted
C4_Witness ==
    /\ last.op = "handleSendMessage"
    /\ Newest(messages).sender = "user"
    /\ \E r \in pending : r.turn = last.turn
    /\ isLoading

\* C5: submitting blank text changes nothing and sends no request
C5_BlankSubmitIsNoOp ==
    [][(last'.op = "handleSendMessage" /\ AllWhite(inputMessage))
       => UNCHANGED <<messages, isLoading, inputMessage, selectedAI,
                      selectedLanguage, stats, localStorage, statsCalls,
                      pending, turn>>]_vars

\* C5 witness: the handler has just run on text made of whitespace only
C5_Witness ==
    /\ last.op = "handleSendMessage"
    /\ inputMessage # <<>>
    /\ AllWhite(inputMessage)

\* C6: the context of a request is the last 5 messages (all of them when
\* there are fewer) of the conversation as it stood when the turn was
\* submitted, in their order
C6_ContextWindow ==
    [][Submits
       => \A r \in pending' \ pending :
            /\ Len(r.body.context) <= 5
            /\ IsSuffix(r.body.context, messages)
            /\ (Len(r.body.context) = 5 \/ r.body.context = messages)]_vars

\* C6 witness: a request is outstanding whose context is 5 messages cut
\* from a longer conversation
C6_Witness ==
    \E r \in pending :
        /\ Len(r.body.context) = 5
        /\ Len(messages) > 6
        /\ r.body.context[5] = messages[Len(messages) - 1]

\* C7 as stated: the text sent is the trimmed input, with the provider and
\* the language selected at submit time
C7_SendsTrimmedText ==
    [][Submits
       => \E r \in pending' \ pending :
            /\ r.body.message = Trim(inputMessage)
            /\ r.body.aiProvider = selectedAI
            /\ r.body.language = selectedLanguage]_vars

\* C7 amended: the text sent is the input buffer as it is, untrimmed, with
\* the provider and the language selected at submit time
C7_SendsInputAsIs ==
    [][Submits
       => \E r \in pending' \ pending :
            /\ r.body.message = inputMessage
            /\ r.body.aiProvider = selectedAI
            /\ r.body.language = selectedLanguage]_vars

\* C7 witness: a request is outstanding whose text has whitespace around it
\* and whose language is not the initial one
C7_Witness ==
    \E r \in pending :
        /\ r.body.message = <<" ", "a", " ">>
        /\ r.body.language = "ar"
        /\ r.body.aiProvider = "grok"

\* C8: the stats callback has been called once per fulfilled turn, the
\* total-chat counter has grown by that number, the other fields are kept
\* and local storage holds the serialized stats
C8_StatsPerFulfilledTurn ==
    /\ statsCalls = fulfilled
    /\ stats = [totalChats |-> HostTotalChats + fulfilled, satisfaction |-> "opaque"]
    /\ (fulfilled = 0 => DOMAIN localStorage = {})
    /\ (fulfilled > 0 =>
          /\ DOMAIN localStorage = {"skv-chatbot-stats"}
          /\ localStorage["skv-chatbot-stats"] = [json |-> stats])

\* C8 witness: two turns have settled, one fulfilled and one failed
C8_Witness ==
    /\ turn = 2
    /\ pending = {}
    /\ fulfilled = 1
    /\ stats.totalChats = HostTotalChats + 1

\* C9: every step leaves the previous conversation as a prefix of the next
\* one, and only the steps of the submit handler extend it
C9_AppendOnly ==
    [][/\ IsPrefix(messages, messages')
       /\ (messages' # messages => last'.op \in {"handleSendMessage", "settle"})]_vars

\* C9 witness: a turn has been submitted and settled and the controls have
\* been used since
C9_Witness ==
    /\ Len(messages) >= 3
    /\ pending = {}
    /\ last.op = "other"
    /\ selectedAI # "gpt"

\* C10: no two messages of the conversation have the same id
C10_UniqueIds ==
    \A i, j \in 1..Len(messages) : i # j => messages[i].id # messages[j].id

====
